---- MODULE Spec2Model ----
(***************************************************************************)
(* A state-machine model of the SiPM event engine: SiPMSensor (the staged  *)
(* pipeline of runEvent over the hit buffer) and SiPMSimulator (the batch  *)
(* driver).  Two revisions of SiPMSensor live in the repository,           *)
(* src/src/SiPMSensor.cpp ("src") and src/src/lib/SiPMSensor.cpp ("lib");  *)
(* props.revision selects the one a behaviour runs.                        *)
(*                                                                         *)
(* Times are integer ticks (one tick = one ns).  An amplitude is kept as   *)
(* the sequence of recharge gaps whose factors 1 - exp(-gap/tau_rec) it is *)
(* the product of: << >> is amplitude 1, <<d>> is 1 - exp(-d/tau_rec).     *)
(***************************************************************************)
EXTENDS Integers, Sequences, FiniteSets, TLC

(***************************************************************************)
(* Bounds of the model.                                                    *)
(***************************************************************************)
MaxPhotons == 2
MaxHits == 3
MaxLength == 2
RandRes == 2
MaxSamples == 6
MaxEvents == 2
MaxResults == 4
NThreads == 2
MaxWavelength == 3

(***************************************************************************)
(* Program constants.                                                      *)
(***************************************************************************)
DcrStart == -100

VARIABLES
  env,                   \* the inputs the caller draws from (constant)
  props,                 \* m_Properties (and the build: revision, avx2)
  m_SignalShape,         \* the cached pulse template
  m_PhotonTimes,
  m_PhotonWavelengths,
  m_Hits,
  m_HitsCap,             \* m_Hits.capacity()
  m_HitsGraph,
  m_nTotalHits,
  m_nPe,
  m_nDcr,
  m_nXt,
  m_nAp,
  m_Signal,
  pc,                    \* position inside runEvent ("idle" outside it)
  last,                  \* addDcrEvents: the arrival cursor
  iPhoton,               \* addPhotoelectrons: the loop index i
  currentCellIdx,        \* addXtEvents / addApEvents: the cursor
  hit,                   \* addXtEvents / addApEvents: the pointer SiPMHit* hit
  passes,                \* passes executed by the current (or last) runEvent
  walked,                \* the indices the cursor took in the cursor pass of this run
  lastPde,               \* addPhotoelectrons: what evaluatePde returned last
  entry,                 \* what the buffer held when runEvent was entered
  m_Times,               \* SiPMSimulator: the loaded events' photon times
  m_Wavelengths,
  m_Nevents,
  m_Results,
  sim                    \* position inside runSimulaion ("idle" outside it)

eventVars == <<m_PhotonTimes, m_PhotonWavelengths, m_Hits, m_HitsCap,
               m_HitsGraph, m_nTotalHits, m_nPe, m_nDcr, m_nXt, m_nAp,
               m_Signal, pc, last, iPhoton, currentCellIdx, hit, passes, walked,
               lastPde, entry>>

\* What runEvent() and the photon loading leave alone.
setupVars == <<env, props, m_SignalShape>>

sensorVars == <<setupVars, eventVars>>

simVars == <<m_Times, m_Wavelengths, m_Nevents, m_Results, sim>>

vars == <<sensorVars, simVars>>

(***************************************************************************)
(* Small helpers.                                                          *)
(***************************************************************************)
Max(a, b) == IF a >= b THEN a ELSE b

SeqsUpTo(S, n) == UNION {[1..k -> S] : k \in 0..n}

Range(s) == {s[i] : i \in 1..Len(s)}

\* C++ conversion of a quotient of doubles to an integer: truncation toward 0.
TruncDiv(a, b) == IF a >= 0 THEN a \div b ELSE 0 - ((0 - a) \div b)

\* a < b for the uint32_t values that the int32_t values a and b convert to
\* (a negative value converts to a + 2^32, beyond every non-negative one).
U32Less(a, b) ==
  \/ a >= 0 /\ b >= 0 /\ a < b
  \/ a >= 0 /\ b < 0
  \/ a < 0 /\ b < 0 /\ a < b

(***************************************************************************)
(* Properties and hits.                                                    *)
(***************************************************************************)
HitTypes == {"kPhotoelectron", "kDarkCount", "kOpticalCrosstalk", "kAfterPulse"}

Revisions == {"src", "lib"}

HitDistributions == {"kUniform", "kCircle", "kGaussian"}

PdeTypes == {"kNoPde", "kSimplePde", "kSpectrumPde"}

nSignalPoints(p) == p.signalLength \div p.sampling

\* SiPMHit(time, amplitude, row, col, type)
SiPMHit(t, a, r, c, ty) ==
  [time |-> t, amplitude |-> a, row |-> r, col |-> c, type |-> ty]

\* SiPMHit::id()
HitId(p, h) == h.row * p.nSideCells + h.col

FullAmplitude == << >>

\* What a read of an int32_t through a dangling pointer, or of an
\* uninitialized int32_t, can yield: any value; the model keeps the values of
\* the grid and one on either side of it.
IndeterminateInts(p) == (0 - 1) .. p.nSideCells

\* What a read of a double amplitude through a dangling pointer can yield:
\* the old value or anything else (<<-1>> stands for "anything else").
GarbageAmplitude == <<0 - 1>>

\* SiPMRandom::randInteger(max): an integer of [0, max].
RandInteger(max) == 0 .. max

\* std::vector growth: emplace_back on a full vector reallocates (and moves
\* the elements) to twice the capacity.
Relocates(cap, size) == size >= cap

GrownCap(cap, size) ==
  IF size < cap THEN cap ELSE IF cap = 0 THEN 1 ELSE 2 * cap

\* std::vector::reserve(n)
Reserved(cap, n) == Max(cap, n)

(***************************************************************************)
(* hitCell: the cells a draw can select.                                   *)
(***************************************************************************)
\* Rand() is u / RandRes for u in 0 .. RandRes-1, so x = Rand()*2 - 1 is
\* (2u - RandRes) / RandRes.
CircleCells(M) ==
  LET U == 0 .. (RandRes - 1)
      X(u) == 2 * u - RandRes
      InCircle(u, v) == X(u) * X(u) + X(v) * X(v) <= RandRes * RandRes
      Outside(u, v) == X(u) * X(u) + X(v) * X(v) >= RandRes * RandRes
      Map(u) == (2 * u * (M \div 2)) \div RandRes
  IN  {<<Map(u), Map(v)>> : <<u, v>> \in
         {w \in U \X U : InCircle(w[1], w[2]) \/ Outside(w[1], w[2])}}

\* randGaussian(0,1) is g / RandRes for g in -4*RandRes .. 4*RandRes.
GaussianCells(M) ==
  LET G == (0 - 4 * RandRes) .. (4 * RandRes)
      Abs(g) == IF g < 0 THEN 0 - g ELSE g
      Central(g) == Abs(g) < 3 * RandRes
      Map(g) == ((g + 3 * RandRes) * (M \div 6)) \div RandRes
  IN  {<<Map(w[1]), Map(w[2])>> : w \in {v \in G \X G : Central(v[1]) /\ Central(v[2])}}
      \cup (RandInteger(M - 1) \X RandInteger(M - 1))

\* Whether hitCell() assigns row and col before returning them: the switch of
\* the lib revision has the single case kUniform.
HitCellAssigns(p) == p.revision = "src" \/ p.hitDistribution = "kUniform"

hitCell(p) ==
  LET M == p.nSideCells
  IN  IF p.revision = "src"
      THEN CASE p.hitDistribution = "kUniform" -> RandInteger(M - 1) \X RandInteger(M - 1)
             [] p.hitDistribution = "kCircle" -> CircleCells(M)
             [] p.hitDistribution = "kGaussian" -> GaussianCells(M)
             [] OTHER -> RandInteger(M - 1) \X RandInteger(M - 1)
      ELSE IF HitCellAssigns(p)
           THEN RandInteger(M) \X RandInteger(M)
           ELSE IndeterminateInts(p) \X IndeterminateInts(p)

(***************************************************************************)
(* isInSensor                                                              *)
(***************************************************************************)
isInSensor(p, r, c) ==
  IF p.revision = "src"
  THEN LET nSideCells == p.nSideCells - 1
       IN  (r >= 0) /\ (c >= 0) /\ (r < nSideCells) /\ (c < nSideCells)
  ELSE LET nSideCells == p.nSideCells
       IN  (r * c > 0) \/ (r < nSideCells) \/ (c < nSideCells)

(***************************************************************************)
(* sortHits and calculateSignalAmplitudes                                  *)
(***************************************************************************)
RECURSIVE InsertByTime(_, _)
InsertByTime(s, h) ==
  IF s = << >> THEN <<h>>
  ELSE IF s[Len(s)].time <= h.time THEN Append(s, h)
       ELSE Append(InsertByTime(SubSeq(s, 1, Len(s) - 1), h), s[Len(s)])

RECURSIVE SortedPrefix(_, _)
SortedPrefix(s, n) ==
  IF n = 0 THEN << >> ELSE InsertByTime(SortedPrefix(s, n - 1), s[n])

\* sortHits(): ascending time, ties in insertion order.
sortHits(s) == SortedPrefix(s, Len(s))

getCellIds(p, hits) == [i \in 1..Len(hits) |-> HitId(p, hits[i])]

\* The inner loop of calculateSignalAmplitudes over the hits of one cell, from
\* position i on, with previousHitTime = prev.
RECURSIVE WalkCell(_, _, _, _, _)
WalkCell(p, hits, id, i, prev) ==
  IF i > Len(hits) THEN hits
  ELSE IF HitId(p, hits[i]) = id
       THEN IF prev = 0
            THEN WalkCell(p, hits, id, i + 1, hits[i].time)
            ELSE WalkCell(p, [hits EXCEPT ![i].amplitude = <<hits[i].time - prev>>],
                          id, i + 1, hits[i].time)
       ELSE WalkCell(p, hits, id, i + 1, prev)

\* One iteration of the loop over uniqueCellId.
ResolveCell(p, hits, id) ==
  IF Cardinality({i \in 1..Len(hits) : HitId(p, hits[i]) = id}) > 1
  THEN WalkCell(p, hits, id, 1, 0)
  ELSE hits

RECURSIVE ResolveCells(_, _, _)
ResolveCells(p, hits, order) ==
  IF order = << >> THEN hits
  ELSE ResolveCells(p, ResolveCell(p, hits, Head(order)), Tail(order))

\* The orders in which an unordered_set holding the ids S can be iterated.
IterationOrders(S) ==
  {o \in [1..Cardinality(S) -> S] : \A i, j \in 1..Cardinality(S) : o[i] = o[j] => i = j}

calculateSignalAmplitudes(p, hits, order) == ResolveCells(p, sortHits(hits), order)

(***************************************************************************)
(* generateSignal: m_Signal[i] is kept as the set of terms added to sample *)
(* i, a term being m_SignalShape[tpl] scaled by the amplitude of hit j.    *)
(***************************************************************************)
Term(hits, j, tpl) == [hit |-> j, tpl |-> tpl]

\* hit->time() / sampling converted to the integer type of `time`; neg is
\* what the lib revision's conversion of a negative double to uint32_t
\* yields (undefined: 0, or a value that wraps beyond every index).
SampleIndex(p, h, neg) ==
  LET q == TruncDiv(h.time, p.sampling)
  IN  IF p.revision = "lib" /\ h.time < 0 THEN neg ELSE q

NegativeConversions == {0, 0 - 1}

\* The sample indices the scalar loop `for (i = time; i < nSignalPoints; ++i)` visits.
ScalarSamples(k, N) == {i \in 0..(N - 1) : k >= 0 /\ i >= k}

\* The first indices i of the 4-wide loop `for (i = time; i < nSignalPoints - 4; i += 4)`.
RECURSIVE VectorStarts(_, _)
VectorStarts(i, N) ==
  IF i >= 0 /\ i < N - 4 THEN {i} \cup VectorStarts(i + 4, N) ELSE {}

\* The 4-wide loop stores outside m_Signal: its first iteration runs
\* (unsigned comparison with nSignalPoints - 4) at an index whose four lanes
\* do not all lie below N.
VectorOutOfBounds(k, N) == U32Less(k, N - 4) /\ (k < 0 \/ k + 3 >= N)

VectorSamples(k, N) == UNION {s .. (s + 3) : s \in VectorStarts(k, N)}

\* src, AVX2: the tail loop starts at nSignalPoints and adds nothing.
\* lib, AVX2: the tail loop continues from the vector loop's i.
SamplesOf(p, k, N) ==
  IF ~p.avx2 THEN ScalarSamples(k, N)
  ELSE IF p.revision = "src" THEN VectorSamples(k, N)
       ELSE ScalarSamples(k, N)

RenderOutOfBounds(p, hits, neg) ==
  p.avx2 /\ \E j \in 1..Len(hits) :
     VectorOutOfBounds(SampleIndex(p, hits[j], neg), nSignalPoints(p))

generateSignal(p, hits, neg) ==
  LET N == nSignalPoints(p)
  IN  [s \in 1..N |->
         {Term(hits, j, (s - 1) - SampleIndex(p, hits[j], neg)) :
            j \in {jj \in 1..Len(hits) :
                     (s - 1) \in SamplesOf(p, SampleIndex(p, hits[jj], neg), N)}}]

(***************************************************************************)
(* The sensor's state after construction.                                  *)
(***************************************************************************)
NoHit == [idx |-> 0 - 1, stale |-> FALSE]

EntryInit == [ran |-> FALSE, carried |-> 0, total |-> 0, fresh |-> TRUE]

\* Times around the window [0, signalLength): one tick before it up to its end.
TimeDomain(p) == (0 - 1) .. p.signalLength

WavelengthDomain == {1}

PropsOf(rev, avx, M, L, dt, dcr, xt, ap, dist, pde) ==
  [revision |-> rev, avx2 |-> avx, nSideCells |-> M, signalLength |-> L,
   sampling |-> dt, hasDcr |-> dcr, hasXt |-> xt, hasAp |-> ap,
   hitDistribution |-> dist, pdeType |-> pde, risingTime |-> 1,
   pdeSpectrum |-> << >>]

\* The keys of a std::map in iteration order: ascending.
RECURSIVE SortedKeys(_)
SortedKeys(S) ==
  IF S = {} THEN << >>
  ELSE LET least == CHOOSE k \in S : \A j \in S : k <= j
       IN  <<least>> \o SortedKeys(S \ {least})

\* The properties p with the PDE spectrum given at the wavelengths keys.
WithSpectrum(p, keys) == [p EXCEPT !.pdeSpectrum = SortedKeys(keys)]

(***************************************************************************)
(* evaluatePde.  The spectrum is kept as its keys in ascending order, an   *)
(* iterator as a position 1..n in them (n + 1: end()), and the value       *)
(* returned as the segment and the wavelength it was interpolated for.     *)
(***************************************************************************)
\* No evaluatePde yet in this pass.
NoPde == [segment |-> << >>]

\* What a dereference of end() or of an iterator before begin() yields.
IndeterminatePde == [segment |-> <<"indeterminate">>]

\* weight * it1->second + (1 - weight) * it0->second with
\* weight = (x - it0->first) / (it1->first - it0->first)
Interpolation(it0, it1, x) == [segment |-> <<it0, it1>>, x |-> x]

\* return 0
ConstantPde == [segment |-> << >>, constant |-> 0]

\* pde.upper_bound(x): the first key greater than x, or end().
upper_bound(keys, x) ==
  LET greater == {i \in 1..Len(keys) : keys[i] > x}
  IN  IF greater = {} THEN Len(keys) + 1
      ELSE CHOOSE i \in greater : \A j \in greater : i <= j

evaluatePde(p, x) ==
  IF p.revision = "lib" THEN ConstantPde
  ELSE LET pde == p.pdeSpectrum
           end == Len(pde) + 1
           found == upper_bound(pde, x)
           backed == IF found = end THEN found - 1 ELSE found
           it1 == IF backed = 1 THEN backed + 1 ELSE backed
           it0 == it1 - 1
       IN  IF it0 \in 1..Len(pde) /\ it1 \in 1..Len(pde)
           THEN Interpolation(it0, it1, x)
           ELSE IndeterminatePde

\* m_Properties.setProperty(prop, val)
setProperty(p, prop, val) == [p EXCEPT ![prop] = val]

\* signalShape(): the template is nSignalPoints samples of the pulse with the
\* rising time in units of the sampling; it is kept as what it was computed
\* from.
signalShape(p) ==
  [nSignalPoints |-> nSignalPoints(p), sampling |-> p.sampling,
   risingTime |-> p.risingTime]

\* The caller's photon times and the most photons it loads for one event.
EnvOf(times, n) == [times |-> times, maxPhotons |-> n]

SensorInit(envs, configs) ==
  /\ env \in envs
  /\ props \in configs
  /\ m_SignalShape = signalShape(props)
  /\ m_PhotonTimes = << >>
  /\ m_PhotonWavelengths = << >>
  /\ m_Hits = << >>
  /\ m_HitsCap = 0
  /\ m_HitsGraph = << >>
  /\ m_nTotalHits = 0
  /\ m_nPe = 0
  /\ m_nDcr = 0
  /\ m_nXt = 0
  /\ m_nAp = 0
  /\ m_Signal = << >>
  /\ pc = "idle"
  /\ last = DcrStart
  /\ iPhoton = 0
  /\ currentCellIdx = 0
  /\ hit = NoHit
  /\ passes = << >>
  /\ walked = << >>
  /\ lastPde = NoPde
  /\ entry = EntryInit

(***************************************************************************)
(* Photon loading and resetState.                                          *)
(***************************************************************************)
runVars == <<pc, last, iPhoton, currentCellIdx, hit, passes, walked, lastPde>>

counterVars == <<m_nTotalHits, m_nPe, m_nDcr, m_nXt, m_nAp>>

\* The wavelength overloads are exercised where the wavelengths are read.
UsesWavelengths == props.pdeType = "kSpectrumPde"

\* addPhoton(aTime)
AddPhoton(t) ==
  /\ pc = "idle"
  /\ Len(m_PhotonTimes) < env.maxPhotons
  /\ m_PhotonTimes' = Append(m_PhotonTimes, t)
  /\ UNCHANGED <<simVars, setupVars, m_PhotonWavelengths, m_Hits, m_HitsCap, m_HitsGraph,
                 counterVars, m_Signal, runVars, entry>>

\* addPhoton(aTime, aWavelength)
AddPhotonW(t, w) ==
  /\ pc = "idle"
  /\ UsesWavelengths
  /\ Len(m_PhotonTimes) < env.maxPhotons
  /\ Len(m_PhotonWavelengths) < env.maxPhotons
  /\ m_PhotonTimes' = Append(m_PhotonTimes, t)
  /\ m_PhotonWavelengths' = Append(m_PhotonWavelengths, w)
  /\ UNCHANGED <<simVars, setupVars, m_Hits, m_HitsCap, m_HitsGraph, counterVars, m_Signal,
                 runVars, entry>>

\* addPhotons(aTimes)
AddPhotons(ts) ==
  /\ pc = "idle"
  /\ m_PhotonTimes' = ts
  /\ UNCHANGED <<simVars, setupVars, m_PhotonWavelengths, m_Hits, m_HitsCap, m_HitsGraph,
                 counterVars, m_Signal, runVars, entry>>

\* The fields resetState() writes; lib leaves m_Signal alone.
ResetSignal(p, sig) == IF p.revision = "src" THEN << >> ELSE sig

\* resetState() without m_Hits.clear().
ResetHitsKept(hits) == hits

ResetHits(hits) == << >>

\* A counter taken down by one instead of set to 0.
ResetCounterByOne(n) == IF n > 0 THEN n - 1 ELSE 0

ResetCounter(n) == 0

\* The members resetState() may write and hits(), hitsGraph(), debug() and
\* signal() read.
SensorState ==
  [m_nTotalHits |-> m_nTotalHits, m_nPe |-> m_nPe, m_nDcr |-> m_nDcr,
   m_nXt |-> m_nXt, m_nAp |-> m_nAp, m_Hits |-> m_Hits,
   m_HitsGraph |-> m_HitsGraph, m_PhotonTimes |-> m_PhotonTimes,
   m_PhotonWavelengths |-> m_PhotonWavelengths, m_Signal |-> m_Signal]

\* The members after resetState().
resetState(p, st) ==
  [st EXCEPT !.m_nTotalHits = ResetCounter(@), !.m_nPe = ResetCounter(@),
             !.m_nDcr = ResetCounter(@), !.m_nXt = ResetCounter(@),
             !.m_nAp = ResetCounter(@), !.m_Hits = ResetHits(@),
             !.m_PhotonTimes = << >>, !.m_PhotonWavelengths = << >>,
             !.m_Signal = ResetSignal(p, @)]

\* What hits(), hitsGraph(), debug() and signal() return.
Observable(st) ==
  [hits |-> st.m_Hits, hitsGraph |-> st.m_HitsGraph,
   debug |-> [nPhotons |-> Len(st.m_PhotonTimes), nPhotoelectrons |-> st.m_nPe,
              nDcr |-> st.m_nDcr, nXt |-> st.m_nXt, nAp |-> st.m_nAp],
   signal |-> st.m_Signal]

\* resetState()
ResetState ==
  /\ pc = "idle"
  /\ LET after == resetState(props, SensorState)
     IN  /\ m_nTotalHits' = after.m_nTotalHits
         /\ m_nPe' = after.m_nPe
         /\ m_nDcr' = after.m_nDcr
         /\ m_nXt' = after.m_nXt
         /\ m_nAp' = after.m_nAp
         /\ m_Hits' = after.m_Hits
         /\ m_PhotonTimes' = after.m_PhotonTimes
         /\ m_PhotonWavelengths' = after.m_PhotonWavelengths
         /\ m_Signal' = after.m_Signal
  /\ entry' = EntryInit
  /\ UNCHANGED <<simVars, setupVars, m_HitsCap, m_HitsGraph, runVars>>

\* addPhotons(aTimes, aWavelengths); the lib revision calls resetState() first.
AddPhotonsW(ts, ws) ==
  /\ pc = "idle"
  /\ UsesWavelengths
  /\ m_PhotonTimes' = ts
  /\ m_PhotonWavelengths' = ws
  /\ IF props.revision = "lib"
     THEN /\ m_nTotalHits' = ResetCounter(m_nTotalHits)
          /\ m_nPe' = ResetCounter(m_nPe)
          /\ m_nDcr' = ResetCounter(m_nDcr)
          /\ m_nXt' = ResetCounter(m_nXt)
          /\ m_nAp' = ResetCounter(m_nAp)
          /\ m_Hits' = ResetHits(m_Hits)
          /\ entry' = EntryInit
     ELSE UNCHANGED <<m_Hits, counterVars, entry>>
  /\ UNCHANGED <<simVars, setupVars, m_HitsCap, m_HitsGraph, m_Signal, runVars>>

(***************************************************************************)
(* The operations that change the properties of a sensor.  The properties  *)
(* the template is computed from are changed to values that leave the      *)
(* signal one sample or more.                                              *)
(***************************************************************************)
ShapeProperties == {"signalLength", "sampling", "risingTime"}

ShapeValues == 1 .. MaxLength

\* setProperty(prop, val)
SetProperty(prop, val) ==
  /\ pc = "idle"
  /\ nSignalPoints(setProperty(props, prop, val)) >= 1
  /\ props' = setProperty(props, prop, val)
  /\ m_SignalShape' = signalShape(props')
  /\ UNCHANGED <<simVars, env, eventVars>>

\* setProperties(const SiPMProperties& x) of the src revision
SetProperties(x) ==
  /\ pc = "idle"
  /\ props.revision = "src"
  /\ x.revision = props.revision /\ x.avx2 = props.avx2
  /\ props' = x
  /\ m_SignalShape' = signalShape(props')
  /\ UNCHANGED <<simVars, env, eventVars>>

\* The loop of setProperties(props, vals) from element i on.
RECURSIVE setPropertiesFrom(_, _, _, _)
setPropertiesFrom(p, names, vals, i) ==
  IF i > Len(names) THEN p
  ELSE setPropertiesFrom(setProperty(p, names[i], vals[i]), names, vals, i + 1)

\* setProperties(props, vals) of the lib revision: m_SignalShape is not
\* assigned.
SetPropertiesList(names, vals) ==
  /\ pc = "idle"
  /\ props.revision = "lib"
  /\ Len(names) = Len(vals)
  /\ nSignalPoints(setPropertiesFrom(props, names, vals, 1)) >= 1
  /\ props' = setPropertiesFrom(props, names, vals, 1)
  /\ UNCHANGED <<simVars, env, m_SignalShape, eventVars>>

\* properties().setProperty(prop, val): a write through the reference the
\* non-const properties() returns.
PropertiesWrite(prop, val) ==
  /\ pc = "idle"
  /\ nSignalPoints(setProperty(props, prop, val)) >= 1
  /\ props' = setProperty(props, prop, val)
  /\ UNCHANGED <<simVars, env, m_SignalShape, eventVars>>

(***************************************************************************)
(* runEvent: the order of the passes.                                      *)
(***************************************************************************)
\* runEvent() with calculateSignalAmplitudes() called before addXtEvents().
PassAfterResolveFirst(p, cur) ==
  CASE cur = "idle" -> IF p.hasDcr THEN "dcr" ELSE "pe"
    [] cur = "dcr" -> "pe"
    [] cur = "pe" -> "amp"
    [] cur = "amp" -> IF p.hasXt THEN "xt" ELSE IF p.hasAp THEN "ap" ELSE "render"
    [] cur = "xt" -> IF p.hasAp THEN "ap" ELSE "render"
    [] cur = "ap" -> "render"
    [] OTHER -> "idle"

\* The pass runEvent() executes after pass cur ("idle": on entry).
PassAfter(p, cur) ==
  CASE cur = "idle" -> IF p.hasDcr THEN "dcr" ELSE "pe"
    [] cur = "dcr" -> "pe"
    [] cur = "pe" -> IF p.hasXt THEN "xt" ELSE "amp"
    [] cur = "xt" -> "amp"
    [] cur = "amp" -> IF p.hasAp THEN "ap" ELSE "render"
    [] cur = "ap" -> "render"
    [] OTHER -> "idle"

\* Control passes from pass pc to the next one, whose locals are initialized;
\* addPhotoelectrons starts with m_Hits.reserve(nPhotons).
Enter(nxt) ==
  /\ pc' = nxt
  /\ passes' = IF nxt = "idle" THEN passes ELSE Append(passes, nxt)
  /\ last' = DcrStart
  /\ iPhoton' = 0
  /\ currentCellIdx' = 0
  /\ hit' = NoHit
  /\ m_HitsCap' = IF nxt = "pe" THEN Reserved(m_HitsCap, Len(m_PhotonTimes))
                  ELSE m_HitsCap
  /\ walked' = IF nxt \in {"xt", "ap", "idle"} THEN << >> ELSE walked
  /\ lastPde' = NoPde

\* A hit appended without its counters incremented.
IncrementedNot(n) == n

\* m_nTotalHits++, m_nPe++, m_nDcr++, ++m_nXt, m_nAp++
Incremented(n) == n + 1

\* m_Hits.emplace_back(h)
EmplaceBack(h) ==
  /\ m_Hits' = Append(m_Hits, h)
  /\ m_HitsCap' = GrownCap(m_HitsCap, Len(m_Hits))

\* runEvent() is entered.
RunEvent ==
  /\ pc = "idle"
  /\ Len(m_Hits) + Len(m_PhotonTimes) <= MaxHits
  /\ entry' = [ran |-> TRUE, carried |-> Len(m_Hits), total |-> m_nTotalHits,
               fresh |-> ~entry.ran]
  /\ passes' = <<PassAfter(props, "idle")>>
  /\ pc' = PassAfter(props, "idle")
  /\ last' = DcrStart
  /\ iPhoton' = 0
  /\ currentCellIdx' = 0
  /\ hit' = NoHit
  /\ m_HitsCap' = IF PassAfter(props, "idle") = "pe"
                  THEN Reserved(m_HitsCap, Len(m_PhotonTimes)) ELSE m_HitsCap
  /\ walked' = << >>
  /\ lastPde' = NoPde
  /\ UNCHANGED <<simVars, setupVars, m_PhotonTimes, m_PhotonWavelengths, m_Hits, m_HitsGraph,
                 counterVars, m_Signal>>

(***************************************************************************)
(* addDcrEvents                                                            *)
(***************************************************************************)
\* The argument of randInteger for a dark count's row and column.
DcrCellMax(p) == IF p.revision = "src" THEN p.nSideCells - 1 ELSE p.nSideCells

\* An arrival at 0 < last < signalLength: a kDarkCount hit.
DcrHit(newLast, row, col) ==
  /\ pc = "dcr"
  /\ last < props.signalLength
  /\ newLast > last
  /\ (newLast > 0) /\ (newLast < props.signalLength)
  /\ Len(m_Hits) + Len(m_PhotonTimes) < MaxHits
  /\ EmplaceBack(SiPMHit(newLast, FullAmplitude, row, col, "kDarkCount"))
  /\ m_nTotalHits' = Incremented(m_nTotalHits)
  /\ m_nDcr' = Incremented(m_nDcr)
  /\ last' = newLast
  /\ UNCHANGED <<simVars, setupVars, m_PhotonTimes, m_PhotonWavelengths, m_HitsGraph, m_nPe,
                 m_nXt, m_nAp, m_Signal, pc, iPhoton, currentCellIdx, hit,
                 passes, walked, lastPde, entry>>

\* An arrival before the window: no hit.
DcrMiss(newLast) ==
  /\ pc = "dcr"
  /\ last < props.signalLength
  /\ newLast > last
  /\ ~(newLast > 0)
  /\ last' = newLast
  /\ UNCHANGED <<simVars, setupVars, m_PhotonTimes, m_PhotonWavelengths, m_Hits, m_HitsCap,
                 m_HitsGraph, counterVars, m_Signal, pc, iPhoton,
                 currentCellIdx, hit, passes, walked, lastPde, entry>>

\* An arrival at or after signalLength: the loop ends.
DcrDone(newLast) ==
  /\ pc = "dcr"
  /\ last < props.signalLength
  /\ newLast > last
  /\ ~(newLast < props.signalLength)
  /\ Enter(PassAfter(props, "dcr"))
  /\ UNCHANGED <<simVars, setupVars, m_PhotonTimes, m_PhotonWavelengths, m_Hits, m_HitsGraph,
                 counterVars, m_Signal, entry>>

(***************************************************************************)
(* addPhotoelectrons                                                       *)
(***************************************************************************)
\* With the spectrum PDE the loop reads m_PhotonWavelengths[i] for every
\* i < nPhotons: beyond the end of the vector when it is the shorter one.
WavelengthOutOfBounds ==
  UsesWavelengths /\ ~(iPhoton < Len(m_PhotonWavelengths))

\* evaluatePde(m_PhotonWavelengths[i])
PhotonPde ==
  IF WavelengthOutOfBounds THEN IndeterminatePde
  ELSE evaluatePde(props, m_PhotonWavelengths[iPhoton + 1])

\* Whether photon i can pass the PDE filter with the draw det:
\* isDetected(aPde) is Rand() < aPde, which the 0 of the lib revision's
\* evaluatePde never satisfies.
Detected(p, det) ==
  IF p.pdeType = "kNoPde" THEN TRUE
  ELSE IF p.pdeType = "kSpectrumPde" /\ p.revision = "lib" THEN FALSE
       ELSE det

\* One iteration of the loop over the photons.
PePhoton(det, pos) ==
  /\ pc = "pe"
  /\ iPhoton < Len(m_PhotonTimes)
  /\ iPhoton' = iPhoton + 1
  /\ lastPde' = IF UsesWavelengths THEN PhotonPde ELSE lastPde
  /\ IF Detected(props, det)
     THEN /\ EmplaceBack(SiPMHit(m_PhotonTimes[iPhoton + 1], FullAmplitude,
                                 pos[1], pos[2], "kPhotoelectron"))
          /\ m_nTotalHits' = Incremented(m_nTotalHits)
          /\ m_nPe' = Incremented(m_nPe)
     ELSE UNCHANGED <<m_Hits, m_HitsCap, m_nTotalHits, m_nPe>>
  /\ UNCHANGED <<simVars, setupVars, m_PhotonTimes, m_PhotonWavelengths, m_HitsGraph, m_nDcr,
                 m_nXt, m_nAp, m_Signal, pc, last, currentCellIdx, hit, passes, walked,
                 entry>>

\* The read beyond the end of m_PhotonWavelengths ends the process; when it
\* returns, PePhoton runs with the draw compared to an indeterminate PDE.
PeCrash ==
  /\ pc = "pe"
  /\ iPhoton < Len(m_PhotonTimes)
  /\ WavelengthOutOfBounds
  /\ pc' = "crashed"
  /\ UNCHANGED <<simVars, setupVars, m_PhotonTimes, m_PhotonWavelengths, m_Hits, m_HitsCap,
                 m_HitsGraph, counterVars, m_Signal, last, iPhoton,
                 currentCellIdx, hit, passes, walked, lastPde, entry>>

PeDone ==
  /\ pc = "pe"
  /\ ~(iPhoton < Len(m_PhotonTimes))
  /\ Enter(PassAfter(props, "pe"))
  /\ UNCHANGED <<simVars, setupVars, m_PhotonTimes, m_PhotonWavelengths, m_Hits, m_HitsGraph,
                 counterVars, m_Signal, entry>>

(***************************************************************************)
(* Reads through the pointer hit.                                          *)
(***************************************************************************)
\* The hit the pointer was taken to.
Pointee == m_Hits[hit.idx + 1]

\* hit is dangling once an emplace_back has reallocated the buffer.
AfterEmplace(h, cap, size) ==
  [h EXCEPT !.stale = h.stale \/ Relocates(cap, size)]

ReadInt(stale, old) ==
  IF stale THEN IndeterminateInts(props) \cup {old} ELSE {old}

ReadTime(stale, old) ==
  IF stale THEN TimeDomain(props) \cup {old} ELSE {old}

ReadAmplitude(stale, old) ==
  IF stale THEN {old, GarbageAmplitude} ELSE {old}

(***************************************************************************)
(* addXtEvents                                                             *)
(***************************************************************************)
\* The cursor loop ending one hit before the end of the buffer.
CursorInsideButLast(idx, total) == idx + 1 < total

\* while (currentCellIdx < m_nTotalHits)
CursorInside(idx, total) == idx < total

\* The offsets the rejection loop do { ... } while (rowAdd + colAdd == 0) ends with.
XtOffsets ==
  {o \in {r - 1 : r \in RandInteger(2)} \X {c - 1 : c \in RandInteger(2)} :
     ~(o[1] + o[2] = 0)}

\* src reads row, col and time through hit at every child; lib copies them
\* before the first child.
XtReadsStale == props.revision = "src" /\ hit.stale

\* The cursor takes the next hit; some draws the parent has a child.
XtNext(some) ==
  /\ pc = "xt"
  /\ hit = NoHit
  /\ CursorInside(currentCellIdx, m_nTotalHits)
  /\ some => Len(m_Hits) < MaxHits
  /\ currentCellIdx' = currentCellIdx + 1
  /\ walked' = Append(walked, currentCellIdx)
  /\ hit' = IF some THEN [idx |-> currentCellIdx, stale |-> FALSE] ELSE NoHit
  /\ UNCHANGED <<simVars, setupVars, m_PhotonTimes, m_PhotonWavelengths, m_Hits, m_HitsCap,
                 m_HitsGraph, counterVars, m_Signal, pc, last, iPhoton, passes, lastPde,
                 entry>>

\* m_Hits after one iteration of the child loop that read row, col and time
\* for the parent and drew the offset off.
XtAppended(row, col, time, off) ==
  LET xtRow == row + off[1]
      xtCol == col + off[2]
  IN  IF isInSensor(props, xtRow, xtCol)
      THEN Append(m_Hits, SiPMHit(time, FullAmplitude, xtRow, xtCol, "kOpticalCrosstalk"))
      ELSE m_Hits

\* One child of the hit under the pointer; more: the parent has a further child.
XtChild(off, more) ==
  /\ pc = "xt"
  /\ hit # NoHit
  /\ \E row \in ReadInt(XtReadsStale, Pointee.row),
        col \in ReadInt(XtReadsStale, Pointee.col),
        time \in ReadTime(XtReadsStale, Pointee.time) :
       LET after == XtAppended(row, col, time, off)
           kept == Len(after) > Len(m_Hits)
       IN  /\ Len(after) <= MaxHits
           /\ more => Len(after) < MaxHits
           /\ m_Hits' = after
           /\ IF kept
              THEN /\ m_HitsCap' = GrownCap(m_HitsCap, Len(m_Hits))
                   /\ m_nTotalHits' = Incremented(m_nTotalHits)
                   /\ m_nXt' = Incremented(m_nXt)
                   /\ hit' = IF more THEN AfterEmplace(hit, m_HitsCap, Len(m_Hits))
                             ELSE NoHit
              ELSE /\ UNCHANGED <<m_HitsCap, m_nTotalHits, m_nXt>>
                   /\ hit' = IF more THEN hit ELSE NoHit
  /\ UNCHANGED <<simVars, setupVars, m_PhotonTimes, m_PhotonWavelengths, m_HitsGraph, m_nPe,
                 m_nDcr, m_nAp, m_Signal, pc, last, iPhoton, currentCellIdx,
                 passes, walked, lastPde, entry>>

XtDone ==
  /\ pc = "xt"
  /\ hit = NoHit
  /\ ~CursorInside(currentCellIdx, m_nTotalHits)
  /\ Enter(PassAfter(props, "xt"))
  /\ UNCHANGED <<simVars, setupVars, m_PhotonTimes, m_PhotonWavelengths, m_Hits, m_HitsGraph,
                 counterVars, m_Signal, entry>>

(***************************************************************************)
(* addApEvents                                                             *)
(***************************************************************************)
\* randExponential: a delay of at least one tick.
ApDelays(p) == 1 .. (p.signalLength + 1)

\* amplitude * (1 - exp(-apDelay / recoveryTime))
ApAmplitude(amp, delay) ==
  IF amp = GarbageAmplitude THEN GarbageAmplitude ELSE Append(amp, delay)

ApNext(some) ==
  /\ pc = "ap"
  /\ hit = NoHit
  /\ CursorInside(currentCellIdx, m_nTotalHits)
  /\ some => Len(m_Hits) < MaxHits
  /\ currentCellIdx' = currentCellIdx + 1
  /\ walked' = Append(walked, currentCellIdx)
  /\ hit' = IF some THEN [idx |-> currentCellIdx, stale |-> FALSE] ELSE NoHit
  /\ UNCHANGED <<simVars, setupVars, m_PhotonTimes, m_PhotonWavelengths, m_Hits, m_HitsCap,
                 m_HitsGraph, counterVars, m_Signal, pc, last, iPhoton, passes, lastPde,
                 entry>>

\* m_Hits after one iteration of the after-pulse loop that drew apDelay and
\* read amp, row and col through hit (apGeneratorTime was copied when the
\* pointer was taken).
ApAppended(amp, row, col, apDelay) ==
  LET apGeneratorTime == Pointee.time
  IN  IF apGeneratorTime + apDelay < props.signalLength
      THEN Append(m_Hits, SiPMHit(apGeneratorTime + apDelay, ApAmplitude(amp, apDelay),
                                  row, col, "kAfterPulse"))
      ELSE m_Hits

\* One after-pulse of the hit under the pointer; more: a further one follows.
ApChild(apDelay, more) ==
  /\ pc = "ap"
  /\ hit # NoHit
  /\ \E amp \in ReadAmplitude(hit.stale, Pointee.amplitude),
        row \in ReadInt(hit.stale, Pointee.row),
        col \in ReadInt(hit.stale, Pointee.col) :
       LET after == ApAppended(amp, row, col, apDelay)
           kept == Len(after) > Len(m_Hits)
       IN  /\ Len(after) <= MaxHits
           /\ more => Len(after) < MaxHits
           /\ m_Hits' = after
           /\ IF kept
              THEN /\ m_HitsCap' = GrownCap(m_HitsCap, Len(m_Hits))
                   /\ m_nTotalHits' = Incremented(m_nTotalHits)
                   /\ m_nAp' = Incremented(m_nAp)
                   /\ hit' = IF more THEN AfterEmplace(hit, m_HitsCap, Len(m_Hits))
                             ELSE NoHit
              ELSE /\ UNCHANGED <<m_HitsCap, m_nTotalHits, m_nAp>>
                   /\ hit' = IF more THEN hit ELSE NoHit
  /\ UNCHANGED <<simVars, setupVars, m_PhotonTimes, m_PhotonWavelengths, m_HitsGraph, m_nPe,
                 m_nDcr, m_nXt, m_Signal, pc, last, iPhoton, currentCellIdx,
                 passes, walked, lastPde, entry>>

ApDone ==
  /\ pc = "ap"
  /\ hit = NoHit
  /\ ~CursorInside(currentCellIdx, m_nTotalHits)
  /\ Enter(PassAfter(props, "ap"))
  /\ UNCHANGED <<simVars, setupVars, m_PhotonTimes, m_PhotonWavelengths, m_Hits, m_HitsGraph,
                 counterVars, m_Signal, entry>>

(***************************************************************************)
(* calculateSignalAmplitudes and generateSignal as steps of runEvent.      *)
(***************************************************************************)
Resolve ==
  /\ pc = "amp"
  /\ \E order \in IterationOrders(Range(getCellIds(props, m_Hits))) :
       m_Hits' = calculateSignalAmplitudes(props, m_Hits, order)
  /\ Enter(PassAfter(props, "amp"))
  /\ UNCHANGED <<simVars, setupVars, m_PhotonTimes, m_PhotonWavelengths, m_HitsGraph,
                 counterVars, m_Signal, entry>>

Render(neg) ==
  /\ pc = "render"
  /\ ~RenderOutOfBounds(props, m_Hits, neg)
  /\ m_Signal' = generateSignal(props, m_Hits, neg)
  /\ Enter(PassAfter(props, "render"))
  /\ UNCHANGED <<simVars, setupVars, m_PhotonTimes, m_PhotonWavelengths, m_Hits, m_HitsGraph,
                 counterVars, entry>>

\* The 4-wide loop stores past the end of m_Signal: the process is lost.
RenderCrash(neg) ==
  /\ pc = "render"
  /\ RenderOutOfBounds(props, m_Hits, neg)
  /\ pc' = "crashed"
  /\ UNCHANGED <<simVars, setupVars, m_PhotonTimes, m_PhotonWavelengths, m_Hits, m_HitsCap,
                 m_HitsGraph, counterVars, m_Signal, last, iPhoton,
                 currentCellIdx, hit, passes, walked, lastPde, entry>>

\* generateSignal() reads m_SignalShape[i - time] beyond the end of a
\* template that was computed for fewer samples than the signal has now.
ShapeOutOfBounds(p, hits, shape, neg) ==
  \E s \in 1..nSignalPoints(p) :
    \E t \in generateSignal(p, hits, neg)[s] : t.tpl >= shape.nSignalPoints

\* The read beyond the end of m_SignalShape ends the process; when it
\* returns, Render adds what it read.
RenderShapeCrash(neg) ==
  /\ pc = "render"
  /\ ShapeOutOfBounds(props, m_Hits, m_SignalShape, neg)
  /\ pc' = "crashed"
  /\ UNCHANGED <<simVars, setupVars, m_PhotonTimes, m_PhotonWavelengths, m_Hits, m_HitsCap,
                 m_HitsGraph, counterVars, m_Signal, last, iPhoton,
                 currentCellIdx, hit, passes, walked, lastPde, entry>>

(***************************************************************************)
(* The sensor's next-state relation.                                       *)
(***************************************************************************)
LoadStep ==
  \/ \E t \in env.times : AddPhoton(t)
  \/ \E t \in env.times, w \in WavelengthDomain : AddPhotonW(t, w)
  \/ \E ts \in SeqsUpTo(env.times, env.maxPhotons) : AddPhotons(ts)
  \/ \E ts \in SeqsUpTo(env.times, env.maxPhotons),
        ws \in SeqsUpTo(WavelengthDomain, env.maxPhotons) : AddPhotonsW(ts, ws)
  \/ ResetState
  \/ RunEvent

PassStep ==
  \/ \E n \in 0..props.signalLength, r, c \in RandInteger(DcrCellMax(props)) :
        DcrHit(n, r, c)
  \/ \E n \in 0..props.signalLength : DcrMiss(n)
  \/ \E n \in 0..props.signalLength : DcrDone(n)
  \/ \E det \in BOOLEAN, pos \in hitCell(props) : PePhoton(det, pos)
  \/ PeCrash
  \/ PeDone
  \/ \E some \in BOOLEAN : XtNext(some)
  \/ \E off \in XtOffsets, more \in BOOLEAN : XtChild(off, more)
  \/ XtDone
  \/ \E some \in BOOLEAN : ApNext(some)
  \/ \E d \in ApDelays(props), more \in BOOLEAN : ApChild(d, more)
  \/ ApDone
  \/ Resolve
  \/ \E neg \in NegativeConversions : Render(neg)
  \/ \E neg \in NegativeConversions : RenderCrash(neg)

SensorNext == LoadStep \/ PassStep

(***************************************************************************)
(* SiPMSimulator: the batch driver.  Of the sensor run of one event the    *)
(* batch model keeps what the result record takes from the batch: idx,     *)
(* times and wavelengths.                                                  *)
(***************************************************************************)
EventDomain == {<< >>, <<0>>}

WavelengthLists == {<<"w">>}

NoResult == [idx |-> 0 - 1]

\* What m_Wavelengths[i] yields for i >= m_Wavelengths.size(), if it returns.
IndeterminateWavelengths == <<"indeterminate">>

SiPMResult(i, t, w) == [idx |-> i, times |-> t, wavelengths |-> w]

\* No element of p_Sensors is in use by the thread.
NoSensor == 0 - 1

\* One sensor for every thread, as if the loop body used l_Sensor.
SensorShared(w) == 0

\* The element of p_Sensors thread w works on: omp_get_thread_num().
SensorOf(w) == w - 1

\* using[w]: the element of p_Sensors thread w is working on; critical: the
\* threads inside #pragma omp critical.
SimIdle(openmp) ==
  [pc |-> "idle", openmp |-> openmp, branch |-> "none", i |-> 0, todo |-> {},
   held |-> [w \in 1..NThreads |-> NoResult], returned |-> FALSE,
   configured |-> "none", using |-> [w \in 1..NThreads |-> NoSensor],
   critical |-> {}]

SimInitial(openmp) ==
  /\ m_Times = << >>
  /\ m_Wavelengths = << >>
  /\ m_Nevents = 0
  /\ m_Results = << >>
  /\ sim = SimIdle(openmp)

\* addEvents(t)
AddEvents(t) ==
  /\ sim.pc = "idle"
  /\ m_Times' = t
  /\ m_Nevents' = Len(t)
  /\ sim' = [sim EXCEPT !.returned = FALSE]
  /\ UNCHANGED <<sensorVars, m_Wavelengths, m_Results>>

\* addEvents(t, w)
AddEventsW(t, w) ==
  /\ sim.pc = "idle"
  /\ m_Times' = t
  /\ m_Wavelengths' = w
  /\ m_Nevents' = Len(t)
  /\ sim' = [sim EXCEPT !.returned = FALSE]
  /\ UNCHANGED <<sensorVars, m_Results>>

\* push_back(t)
PushBack(t) ==
  /\ sim.pc = "idle"
  /\ Len(m_Times) < MaxEvents
  /\ m_Times' = Append(m_Times, t)
  /\ m_Nevents' = m_Nevents + 1
  /\ sim' = [sim EXCEPT !.returned = FALSE]
  /\ UNCHANGED <<sensorVars, m_Wavelengths, m_Results>>

\* push_back(t, w)
PushBackW(t, w) ==
  /\ sim.pc = "idle"
  /\ Len(m_Times) < MaxEvents
  /\ Len(m_Wavelengths) < MaxEvents
  /\ m_Times' = Append(m_Times, t)
  /\ m_Wavelengths' = Append(m_Wavelengths, w)
  /\ m_Nevents' = m_Nevents + 1
  /\ sim' = [sim EXCEPT !.returned = FALSE]
  /\ UNCHANGED <<sensorVars, m_Results>>

\* clear()
Clear ==
  /\ sim.pc = "idle"
  /\ m_Times' = << >>
  /\ m_Wavelengths' = << >>
  /\ m_Results' = << >>
  /\ m_Nevents' = 0
  /\ sim' = [sim EXCEPT !.returned = FALSE]
  /\ UNCHANGED sensorVars

\* The branch runSimulaion() takes.
SimBranch(needWlen, hasWlen) ==
  IF ~needWlen THEN "plain" ELSE IF hasWlen THEN "spectrum" ELSE "nopde"

\* runSimulaion() is entered: needWlen, hasWlen and the branch are decided;
\* the third branch sets the PDE type of *m_Sensor (props) to kNoPde.
\* sim.configured keeps the PDE type the call found.
RunSimulaion ==
  LET needWlen == props.pdeType = "kSpectrumPde"
      hasWlen == Len(m_Wavelengths) # 0
      branch == SimBranch(needWlen, hasWlen)
      parallel == sim.openmp /\ branch = "plain"
  IN  /\ sim.pc = "idle"
      /\ Len(m_Results) + m_Nevents <= MaxResults
      /\ sim' = [sim EXCEPT !.pc = IF parallel THEN "parallel" ELSE "serial",
                            !.branch = branch, !.i = 0,
                            !.todo = IF parallel THEN 0 .. (m_Nevents - 1) ELSE {},
                            !.returned = FALSE,
                            !.configured = props.pdeType]
      /\ props' = IF branch = "nopde" THEN [props EXCEPT !.pdeType = "kNoPde"]
                  ELSE props
      /\ UNCHANGED <<env, m_SignalShape, eventVars, m_Times, m_Wavelengths, m_Nevents,
                     m_Results>>

\* The wavelengths the record of event i carries.
ResultWavelengths(branch, i) ==
  IF branch = "spectrum"
  THEN IF i < Len(m_Wavelengths) THEN m_Wavelengths[i + 1] ELSE IndeterminateWavelengths
  ELSE << >>

\* m_Wavelengths[i] is read beyond the end of m_Wavelengths.
WavelengthsOutOfBounds(branch, i) == branch = "spectrum" /\ ~(i < Len(m_Wavelengths))

\* One iteration of a serial loop: resetState, addPhotons, runEvent on
\* *m_Sensor, then m_Results.push_back(l_Result).
SimIteration ==
  /\ sim.pc = "serial"
  /\ sim.i < m_Nevents
  /\ m_Results' = Append(m_Results, SiPMResult(sim.i, m_Times[sim.i + 1],
                                              ResultWavelengths(sim.branch, sim.i)))
  /\ sim' = [sim EXCEPT !.i = sim.i + 1]
  /\ UNCHANGED <<sensorVars, m_Times, m_Wavelengths, m_Nevents>>

\* The read beyond the end of m_Wavelengths ends the process.
SimCrash ==
  /\ sim.pc = "serial"
  /\ sim.i < m_Nevents
  /\ WavelengthsOutOfBounds(sim.branch, sim.i)
  /\ sim' = [sim EXCEPT !.pc = "crashed"]
  /\ UNCHANGED <<sensorVars, m_Times, m_Wavelengths, m_Nevents, m_Results>>

\* The serial loop ends and runSimulaion() returns.
SimReturn ==
  /\ sim.pc = "serial"
  /\ ~(sim.i < m_Nevents)
  /\ sim' = [sim EXCEPT !.pc = "idle", !.returned = TRUE]
  /\ UNCHANGED <<sensorVars, m_Times, m_Wavelengths, m_Nevents, m_Results>>

\* #pragma omp parallel for: thread w starts iteration i: resetState,
\* addPhotons, runEvent, signal and debug on its element of p_Sensors, and
\* l_Result built from them.
SimTake(w, i) ==
  /\ sim.pc = "parallel"
  /\ sim.held[w] = NoResult
  /\ i \in sim.todo
  /\ sim' = [sim EXCEPT !.todo = sim.todo \ {i},
                        !.using[w] = SensorOf(w),
                        !.held[w] = SiPMResult(i, m_Times[i + 1], << >>)]
  /\ UNCHANGED <<sensorVars, m_Times, m_Wavelengths, m_Nevents, m_Results>>

\* Thread w is done with its sensor and enters #pragma omp critical, which
\* no other thread is inside of.
SimEnter(w) ==
  /\ sim.pc = "parallel"
  /\ sim.using[w] # NoSensor
  /\ sim.critical = {}
  /\ sim' = [sim EXCEPT !.using[w] = NoSensor, !.critical = {w}]
  /\ UNCHANGED <<sensorVars, m_Times, m_Wavelengths, m_Nevents, m_Results>>

\* { m_Results.push_back(l_Result); } and the end of the critical region.
SimPush(w) ==
  /\ sim.pc = "parallel"
  /\ w \in sim.critical
  /\ m_Results' = Append(m_Results, sim.held[w])
  /\ sim' = [sim EXCEPT !.held[w] = NoResult, !.critical = sim.critical \ {w}]
  /\ UNCHANGED <<sensorVars, m_Times, m_Wavelengths, m_Nevents>>

\* The parallel region ends and runSimulaion() returns.
SimJoin ==
  /\ sim.pc = "parallel"
  /\ sim.todo = {}
  /\ \A w \in 1..NThreads : sim.held[w] = NoResult
  /\ sim' = [sim EXCEPT !.pc = "idle", !.returned = TRUE]
  /\ UNCHANGED <<sensorVars, m_Times, m_Wavelengths, m_Nevents, m_Results>>

SimLoad ==
  \/ \E t \in SeqsUpTo(EventDomain, MaxEvents) : AddEvents(t)
  \/ \E t \in SeqsUpTo(EventDomain, MaxEvents),
        w \in SeqsUpTo(WavelengthLists, MaxEvents) : AddEventsW(t, w)
  \/ \E t \in EventDomain : PushBack(t)
  \/ \E t \in EventDomain, w \in WavelengthLists : PushBackW(t, w)
  \/ Clear
  \/ RunSimulaion

SimRun ==
  \/ SimIteration
  \/ SimCrash
  \/ SimReturn
  \/ \E w \in 1..NThreads, i \in 0..(MaxEvents - 1) : SimTake(w, i)
  \/ \E w \in 1..NThreads : SimEnter(w)
  \/ \E w \in 1..NThreads : SimPush(w)
  \/ SimJoin

SimNext == SimLoad \/ SimRun

(***************************************************************************)
(* The configurations explored.  Every flag combination of runEvent on the *)
(* scalar src build; the other hit distributions and PDE types, noise off, *)
(* with photons outside the window; the lib revision; the AVX2 builds.     *)
(***************************************************************************)
BaseConfigs ==
  {PropsOf("src", FALSE, 2, MaxLength, 1, dcr, xt, ap, "kUniform", "kNoPde") :
     dcr \in BOOLEAN, xt \in BOOLEAN, ap \in BOOLEAN}

WideConfigs ==
  {PropsOf("src", FALSE, 2, MaxLength, 1, FALSE, FALSE, FALSE, "kCircle", "kSimplePde"),
   WithSpectrum(PropsOf("src", FALSE, 2, MaxLength, 1, FALSE, FALSE, FALSE,
                        "kGaussian", "kSpectrumPde"), 1 .. 2)}

LibConfigs ==
  {PropsOf("lib", FALSE, 1, MaxLength, 1, TRUE, TRUE, TRUE, "kUniform", "kNoPde"),
   PropsOf("lib", FALSE, 1, MaxLength, 1, FALSE, FALSE, FALSE, "kCircle", "kNoPde")}

Avx2Configs ==
  {PropsOf(rev, TRUE, 2, MaxLength, 1, TRUE, TRUE, TRUE, "kUniform", "kNoPde") :
     rev \in Revisions}

Init ==
  /\ \/ SensorInit({EnvOf(0 .. (MaxLength - 1), MaxPhotons)}, BaseConfigs)
     \/ SensorInit({EnvOf((0 - 1) .. MaxLength, 1)}, WideConfigs)
     \/ SensorInit({EnvOf({0}, 1)}, LibConfigs \cup Avx2Configs)
  /\ SimInitial(FALSE)

Next == SensorNext

Spec == Init /\ [][Next]_vars

(***************************************************************************)
(* The renderer on its own: runEvent() with every noise source off has     *)
(* reached generateSignal() for one or more photoelectrons of one cell,    *)
(* for every number of samples up to MaxSamples and both builds.           *)
(***************************************************************************)
RenderConfigs ==
  {PropsOf(rev, avx, 1, N * dt, dt, FALSE, FALSE, FALSE, "kUniform", "kNoPde") :
     rev \in Revisions, avx \in BOOLEAN, N \in 1..MaxSamples, dt \in {1, 2}}

RenderInit ==
  /\ props \in RenderConfigs
  /\ m_SignalShape = signalShape(props)
  /\ env = EnvOf(TimeDomain(props), MaxPhotons)
  /\ m_PhotonTimes \in SeqsUpTo(TimeDomain(props), MaxPhotons)
  /\ m_PhotonWavelengths = << >>
  /\ m_Hits = calculateSignalAmplitudes(props,
                 [i \in 1..Len(m_PhotonTimes) |->
                    SiPMHit(m_PhotonTimes[i], FullAmplitude, 0, 0, "kPhotoelectron")],
                 IF m_PhotonTimes = << >> THEN << >> ELSE <<0>>)
  /\ m_HitsCap = Len(m_PhotonTimes)
  /\ m_HitsGraph = << >>
  /\ m_nTotalHits = Len(m_PhotonTimes)
  /\ m_nPe = Len(m_PhotonTimes)
  /\ m_nDcr = 0
  /\ m_nXt = 0
  /\ m_nAp = 0
  /\ m_Signal = << >>
  /\ pc = "render"
  /\ last = DcrStart
  /\ iPhoton = 0
  /\ currentCellIdx = 0
  /\ hit = NoHit
  /\ passes = <<"pe", "amp", "render">>
  /\ walked = << >>
  /\ lastPde = NoPde
  /\ entry = [ran |-> TRUE, carried |-> 0, total |-> 0, fresh |-> TRUE]
  /\ SimInitial(FALSE)

RenderNext ==
  \/ \E neg \in NegativeConversions : Render(neg)
  \/ \E neg \in NegativeConversions : RenderCrash(neg)

SpecRender == RenderInit /\ [][RenderNext]_vars

(***************************************************************************)
(* The batch driver on its own, in the OpenMP and the serial build.        *)
(***************************************************************************)
SimConfigs ==
  {PropsOf("src", FALSE, 2, MaxLength, 1, FALSE, FALSE, FALSE, "kUniform", pde) :
     pde \in {"kNoPde", "kSpectrumPde"}}

SimInit ==
  /\ SensorInit({EnvOf({0}, 1)}, SimConfigs)
  /\ \E openmp \in BOOLEAN : SimInitial(openmp)

SpecSim == SimInit /\ [][SimNext]_vars

(***************************************************************************)
(* The property-changing operations between the runs of a sensor with      *)
(* every noise source off and one cell, in both revisions.                 *)
(***************************************************************************)
ShapeConfigs ==
  {PropsOf(rev, FALSE, 1, c[1], c[2], FALSE, FALSE, FALSE, "kUniform", "kNoPde") :
     rev \in Revisions, c \in {c \in ShapeValues \X ShapeValues : c[2] <= c[1]}}

ShapeInit ==
  /\ SensorInit({EnvOf({0}, 1)}, ShapeConfigs)
  /\ SimInitial(FALSE)

ShapeNext ==
  \/ \E prop \in ShapeProperties, val \in ShapeValues : SetProperty(prop, val)
  \/ \E x \in ShapeConfigs : SetProperties(x)
  \/ \E names \in SeqsUpTo(ShapeProperties, MaxLength),
        vals \in SeqsUpTo(ShapeValues, MaxLength) : SetPropertiesList(names, vals)
  \/ \E prop \in ShapeProperties, val \in ShapeValues : PropertiesWrite(prop, val)
  \/ \E t \in env.times : AddPhoton(t)
  \/ ResetState
  \/ RunEvent
  \/ \E det \in BOOLEAN, pos \in hitCell(props) : PePhoton(det, pos)
  \/ PeDone
  \/ Resolve
  \/ \E neg \in NegativeConversions : Render(neg)
  \/ \E neg \in NegativeConversions : RenderShapeCrash(neg)

SpecShape == ShapeInit /\ [][ShapeNext]_vars

(***************************************************************************)
(* evaluatePde on its own: runEvent() of a one-cell sensor with the        *)
(* spectrum PDE, for every spectrum of two or more points with keys up to  *)
(* MaxWavelength and photons with wavelengths below, at, between and above *)
(* the keys, in both revisions.                                            *)
(***************************************************************************)
PdeWavelengths == 0 .. (MaxWavelength + 1)

PdeConfigs ==
  {WithSpectrum(PropsOf(rev, FALSE, 1, MaxLength, 1, FALSE, FALSE, FALSE,
                        "kUniform", "kSpectrumPde"), keys) :
     rev \in Revisions,
     keys \in {S \in SUBSET (1 .. MaxWavelength) : Cardinality(S) >= 2}}

PdeInit ==
  /\ SensorInit({EnvOf({0}, 1)}, PdeConfigs)
  /\ SimInitial(FALSE)

PdeNext ==
  \/ \E t \in env.times, w \in PdeWavelengths : AddPhotonW(t, w)
  \/ ResetState
  \/ RunEvent
  \/ \E det \in BOOLEAN, pos \in hitCell(props) : PePhoton(det, pos)
  \/ PeDone
  \/ Resolve
  \/ \E neg \in NegativeConversions : Render(neg)

SpecPde == PdeInit /\ [][PdeNext]_vars

(***************************************************************************)
(* Properties.                                                             *)
(***************************************************************************)
\* A runEvent() has been entered and has returned.
EventDone == pc = "idle" /\ entry.ran

\* C1: in every runEvent() the passes run in the order dark-count (if DCR is
\* enabled), photoelectron, cross-talk (if XT is enabled), recharge
\* resolution, after-pulse (if AP is enabled), render: the passes run so far
\* are always a prefix of that list and the whole list once runEvent() has
\* returned; recharge resolution starts with the cross-talk cursor finished
\* and, in a run on an empty buffer, no cross-talk hit exists before the
\* cross-talk pass and no after-pulse hit before the after-pulse pass.
C1_PassOrder ==
  LET expected == (IF props.hasDcr THEN <<"dcr">> ELSE << >>) \o <<"pe">>
                  \o (IF props.hasXt THEN <<"xt">> ELSE << >>) \o <<"amp">>
                  \o (IF props.hasAp THEN <<"ap">> ELSE << >>) \o <<"render">>
      n == Len(passes)
  IN  /\ n <= Len(expected)
      /\ passes = SubSeq(expected, 1, n)
      /\ pc \notin {"idle", "crashed"} => n > 0 /\ passes[n] = pc
      /\ EventDone => passes = expected
      /\ pc = "amp" => hit = NoHit
      /\ (entry.carried = 0 /\ pc \in {"dcr", "pe"}) => m_nXt = 0
      /\ (entry.carried = 0 /\ pc \in {"dcr", "pe", "xt", "amp"}) => m_nAp = 0

\* A run with every pass enabled has returned with a cross-talk and an
\* after-pulse hit in the buffer.
C1_Witness ==
  /\ EventDone
  /\ passes = <<"dcr", "pe", "xt", "amp", "ap", "render">>
  /\ m_nXt > 0
  /\ m_nAp > 0

C3_CellsInGrid ==
  EventDone =>
    \A i \in 1..Len(m_Hits) :
      /\ 0 <= m_Hits[i].row /\ m_Hits[i].row < props.nSideCells
      /\ 0 <= m_Hits[i].col /\ m_Hits[i].col < props.nSideCells

\* C4: after every runEvent() every hit has 0 <= time < signalLength,
\* whatever the photon times were.
C4_TimesInWindow ==
  EventDone =>
    \A i \in 1..Len(m_Hits) :
      0 <= m_Hits[i].time /\ m_Hits[i].time < props.signalLength

\* C5: in every state nTotalHits = nPe + nDcr + nXt + nAp, nTotalHits is the
\* length of the hit buffer, and each counter is the number of buffered hits
\* of its origin.
C5_Counters ==
  LET count(ty) == Cardinality({i \in 1..Len(m_Hits) : m_Hits[i].type = ty})
  IN  /\ m_nTotalHits = m_nPe + m_nDcr + m_nXt + m_nAp
      /\ m_nTotalHits = Len(m_Hits)
      /\ m_nPe = count("kPhotoelectron")
      /\ m_nDcr = count("kDarkCount")
      /\ m_nXt = count("kOpticalCrosstalk")
      /\ m_nAp = count("kAfterPulse")

\* A run has returned with a photoelectron, a cross-talk and an after-pulse
\* hit counted.
C5_Witness ==
  /\ EventDone
  /\ m_nPe > 0
  /\ m_nXt > 0
  /\ m_nAp > 0

\* C6: right after recharge resolution, in a run entered on an empty buffer,
\* the hits of every cell walked in ascending time have: the first one
\* amplitude 1, every later one 1 - exp(-gap/tau_rec) for the gap to the hit
\* before it on that cell, also when the first hit is at time 0.
C6_Recharge ==
  LET n == Len(passes)
      resolved == /\ pc \in {"ap", "render"}
                  /\ n > 1 /\ passes[n - 1] = "amp"
                  /\ currentCellIdx = 0 /\ hit = NoHit
                  /\ entry.carried = 0
      before(i) == {j \in 1..(i - 1) : HitId(props, m_Hits[j]) = HitId(props, m_Hits[i])}
      previous(i) == CHOOSE j \in before(i) : \A k \in before(i) : k <= j
  IN  resolved =>
        \A i \in 1..Len(m_Hits) :
          m_Hits[i].amplitude =
            IF before(i) = {} THEN FullAmplitude
            ELSE <<m_Hits[i].time - m_Hits[previous(i)].time>>

\* C8: no step of runEvent() has an outcome that the properties, the photon
\* lists and the draws do not fix: every hit coordinate is assigned before it
\* is used, the hit a cross-talk or after-pulse iteration appends is the same
\* for everything its reads can return, recharge resolution gives the same
\* buffer for every iteration order of the cell-id set, and the render gives
\* the same signal for every outcome of its conversions.
C8_Deterministic ==
  /\ (pc = "pe" /\ iPhoton < Len(m_PhotonTimes)) => HitCellAssigns(props)
  /\ (pc = "xt" /\ hit # NoHit) =>
       \A off \in XtOffsets :
         Cardinality({XtAppended(row, col, time, off) :
                        row \in ReadInt(XtReadsStale, Pointee.row),
                        col \in ReadInt(XtReadsStale, Pointee.col),
                        time \in ReadTime(XtReadsStale, Pointee.time)}) = 1
  /\ (pc = "ap" /\ hit # NoHit) =>
       \A apDelay \in ApDelays(props) :
         Cardinality({ApAppended(amp, row, col, apDelay) :
                        amp \in ReadAmplitude(hit.stale, Pointee.amplitude),
                        row \in ReadInt(hit.stale, Pointee.row),
                        col \in ReadInt(hit.stale, Pointee.col)}) = 1
  /\ pc = "amp" =>
       Cardinality({calculateSignalAmplitudes(props, m_Hits, order) :
                      order \in IterationOrders(Range(getCellIds(props, m_Hits)))}) = 1
  /\ pc = "render" =>
       /\ Cardinality({RenderOutOfBounds(props, m_Hits, neg) :
                         neg \in NegativeConversions}) = 1
       /\ Cardinality({generateSignal(props, m_Hits, neg) :
                         neg \in NegativeConversions}) = 1

\* C9: after every runEvent() hitsGraph() is parallel to hits(): same length,
\* -1 for a photoelectron or dark count, and for a cross-talk or after-pulse
\* hit the index of a hit with the child's time (cross-talk) or the child's
\* cell (after-pulse).
C9_HitsGraph ==
  EventDone =>
    /\ Len(m_HitsGraph) = Len(m_Hits)
    /\ \A i \in 1..Len(m_Hits) :
         LET g == m_HitsGraph[i]
         IN  CASE m_Hits[i].type \in {"kPhotoelectron", "kDarkCount"} -> g = 0 - 1
               [] m_Hits[i].type = "kOpticalCrosstalk" ->
                    /\ g \in 0..(Len(m_Hits) - 1)
                    /\ m_Hits[g + 1].time = m_Hits[i].time
               [] OTHER ->
                    /\ g \in 0..(Len(m_Hits) - 1)
                    /\ HitId(props, m_Hits[g + 1]) = HitId(props, m_Hits[i])

\* C7: the render ends without storing outside the signal, and for every hit
\* whose sample index k = floor(time/dt) lies in [0, N) the pairs (sample,
\* template index) it has added to are exactly (i, i - k) for i in [k, N),
\* in the scalar and in the AVX2 build alike.
C7_RenderCoverage ==
  LET N == nSignalPoints(props)
      k(j) == m_Hits[j].time \div props.sampling
      added(j) == {<<i - 1, t.tpl>> : <<i, t>> \in
                     {x \in (1..N) \X (UNION Range(m_Signal)) :
                        x[2] \in m_Signal[x[1]] /\ x[2].hit = j}}
  IN  /\ pc # "crashed"
      /\ EventDone =>
           \A j \in 1..Len(m_Hits) :
             k(j) \in 0..(N - 1) => added(j) = {<<i, i - k(j)>> : i \in k(j)..(N - 1)}

\* C10: after any runSimulation() has returned, results() holds exactly one
\* record per loaded event, with idx the input position of the event it was
\* computed from: the idx values are pairwise distinct and are 0..nEvents-1.
C10_OneRecordPerEvent ==
  (sim.pc = "idle" /\ sim.returned) =>
    /\ Len(m_Results) = m_Nevents
    /\ {m_Results[r].idx : r \in 1..Len(m_Results)} = 0 .. (m_Nevents - 1)
    /\ \A r \in 1..Len(m_Results) :
         /\ m_Results[r].idx \in 0 .. (Len(m_Times) - 1)
         /\ m_Results[r].times = m_Times[m_Results[r].idx + 1]

\* C11: missing wavelengths are handled per event.  A runSimulation() never
\* ends in a read beyond the wavelength lists and no record carries what
\* such a read returned; in a run that found the spectrum PDE the record of
\* an event that has a wavelength list carries that list; and after
\* runSimulation() has returned the PDE type of the simulator's properties
\* is the one the call found.
C11_PerEventWavelengths ==
  /\ sim.pc # "crashed"
  /\ \A r \in 1..Len(m_Results) :
       m_Results[r].wavelengths # IndeterminateWavelengths
  /\ (sim.pc = "serial" /\ sim.i > 0 /\ sim.configured = "kSpectrumPde"
        /\ sim.i <= Len(m_Wavelengths)) =>
       m_Results[Len(m_Results)].wavelengths = m_Wavelengths[sim.i]
  /\ (sim.pc = "idle" /\ sim.returned) => props.pdeType = sim.configured

\* C12: a runEvent() of a sensor with the spectrum PDE and fewer wavelengths
\* than photon times ends with an error and reads no wavelength at an index
\* at or beyond the length of the wavelength list: the photon loop is never
\* about to read beyond the list and the photon pass never loses the process.
C12_MissingWavelengths ==
  /\ (pc = "pe" /\ iPhoton < Len(m_PhotonTimes)) => ~WavelengthOutOfBounds
  /\ ~(pc = "crashed" /\ passes[Len(passes)] = "pe")

\* C13: during a parallel runSimulation() no two threads work on the same
\* sensor at the same time, at most one thread is inside the critical
\* region, a thread inside it has let go of its sensor and holds the record
\* it appends, and the PDE type of the simulator's own sensor is the one the
\* call found (the threads write none of its state).
C13_NoSharedSensor ==
  sim.pc = "parallel" =>
    /\ \A v, w \in 1..NThreads :
         (v # w /\ sim.using[v] # NoSensor) => sim.using[v] # sim.using[w]
    /\ Cardinality(sim.critical) <= 1
    /\ \A w \in sim.critical : sim.using[w] = NoSensor /\ sim.held[w] # NoResult
    /\ props.pdeType = sim.configured

\* One thread is inside the critical region while another is working on its
\* sensor.
C13_Witness ==
  /\ sim.pc = "parallel"
  /\ \E v, w \in 1..NThreads :
       v # w /\ v \in sim.critical /\ sim.using[w] # NoSensor

\* C14: after every property-changing operation (setProperty, either
\* setProperties, a write through properties()) the cached pulse template is
\* the one computed from the current properties, so the template a
\* runEvent() renders with is never one computed from earlier properties
\* and the render never reads beyond it.
C14_TemplateCoherent ==
  /\ m_SignalShape = signalShape(props)
  /\ pc = "render" =>
       \A neg \in NegativeConversions :
         ~ShapeOutOfBounds(props, m_Hits, m_SignalShape, neg)

\* C15: resetState() is idempotent: from every state a caller can call it
\* in, what hits(), hitsGraph(), debug() (photon count included) and
\* signal() return after two resetState() in a row is what they return
\* after one.
C15_ResetIdempotent ==
  pc = "idle" =>
    LET once == resetState(props, SensorState)
    IN  Observable(resetState(props, once)) = Observable(once)

\* resetState() has run on a sensor whose buffer had held hits: the buffer
\* is empty with its capacity left, the counters and the photon lists are
\* cleared.
C15_Witness ==
  /\ pc = "idle"
  /\ entry = EntryInit
  /\ m_HitsCap > 1
  /\ SensorState = resetState(props, SensorState)

\* C16: whenever the cross-talk pass is about to draw the offset of a child,
\* the offsets the rejection loop can end with are the eight neighbours:
\* every (dr, dc) with dr, dc in {-1, 0, 1} except (0, 0), so (0, 0) is never
\* chosen and (-1, +1) and (+1, -1) can be.
C16_EightNeighbours ==
  (pc = "xt" /\ hit # NoHit) =>
    XtOffsets = (((0 - 1) .. 1) \X ((0 - 1) .. 1)) \ {<<0, 0>>}

\* C17: a cross-talk child with target cell (r, c) is appended if and only
\* if 0 <= r < nSideCells and 0 <= c < nSideCells: targets in the last row
\* or column are kept, targets with a negative coordinate or one at or
\* beyond nSideCells are discarded.
C17_TargetInGrid ==
  (pc = "xt" /\ hit # NoHit) =>
    \A off \in XtOffsets :
      \A row \in ReadInt(XtReadsStale, Pointee.row),
         col \in ReadInt(XtReadsStale, Pointee.col),
         time \in ReadTime(XtReadsStale, Pointee.time) :
        LET r == row + off[1]
            c == col + off[2]
        IN  (Len(XtAppended(row, col, time, off)) > Len(m_Hits))
              <=> (0 <= r /\ r < props.nSideCells /\ 0 <= c /\ c < props.nSideCells)

\* C18: in the cross-talk and the after-pulse pass no field of a hit is read
\* through a reference taken before an append that moved the buffer: a
\* cross-talk child iteration, and an after-pulse iteration that can fall
\* inside the window, never read the parent through a dangling pointer.
C18_NoStaleRead ==
  /\ (pc = "xt" /\ hit # NoHit) => ~XtReadsStale
  /\ (pc = "ap" /\ hit # NoHit
        /\ \E apDelay \in ApDelays(props) :
             Pointee.time + apDelay < props.signalLength)
       => ~hit.stale

\* C19: in the cross-talk and the after-pulse pass the cursor takes the
\* indices 0, 1, 2, ... in order, each once, never beyond the buffer, and a
\* pass is left only with the cursor at the length of the buffer: when
\* recharge resolution starts after a cross-talk pass, and when the render
\* starts after an after-pulse pass, the indices taken are all the indices
\* of the buffer, those of the hits appended during the pass included.
C19_CursorWalk ==
  LET upTo(n) == [i \in 1..n |-> i - 1]
  IN  /\ pc \in {"xt", "ap"} =>
           /\ walked = upTo(currentCellIdx)
           /\ currentCellIdx <= Len(m_Hits)
           /\ hit # NoHit => hit.idx = currentCellIdx - 1
      /\ (pc = "amp" /\ props.hasXt) => walked = upTo(Len(m_Hits))
      /\ (pc = "render" /\ props.hasAp) => walked = upTo(Len(m_Hits))

\* A cross-talk pass has ended in which a child was appended to an empty
\* run's buffer and taken by the cursor after its parent.
C19_Witness ==
  /\ pc = "amp"
  /\ props.hasXt
  /\ entry.carried = 0
  /\ m_nXt > 0
  /\ Len(walked) = Len(m_Hits)
  /\ m_Hits[Len(m_Hits)].type = "kOpticalCrosstalk"

\* C20: for a spectrum of two or more points sorted by wavelength and a
\* photon of wavelength x, evaluatePde returns the linear interpolation (not
\* a constant) on the segment (l0, l1) with l0 <= x < l1 when x is inside the
\* table, on the first two points when x is below the first one, and on the
\* last two points when x is at or above the last one, with no dereference
\* outside the table.
C20_SegmentSelection ==
  (pc = "pe" /\ UsesWavelengths /\ iPhoton > 0
     /\ iPhoton <= Len(m_PhotonWavelengths) /\ Len(props.pdeSpectrum) >= 2) =>
    LET keys == props.pdeSpectrum
        n == Len(keys)
        x == m_PhotonWavelengths[iPhoton]
        l0 == IF x < keys[1] THEN 1
              ELSE IF x >= keys[n] THEN n - 1
              ELSE CHOOSE i \in 1..(n - 1) : keys[i] <= x /\ x < keys[i + 1]
    IN  lastPde = Interpolation(l0, l0 + 1, x)

====
